---- MODULE Spec2Model ----
(***************************************************************************)
(* Model of the authentication engine (Authentication.auth) and of the     *)
(* update-by-id request handler (PutController.updateById).                *)
(*                                                                         *)
(* Spec     : one call of auth(), one loop iteration per step.             *)
(* SpecPut  : one update-by-id request, one pipeline stage per step.       *)
(* SpecRace : SpecPut with a concurrent delete of the row being updated.   *)
(***************************************************************************)
EXTENDS Naturals, Sequences, FiniteSets

VARIABLES
    authentications,  \* configService.get('auth'): absent, or a list of rules
    llanaAuthTable,   \* rows of the LLANA_AUTH_TABLE (route entries of the rules)
    isTest,           \* Env.IsTest()
    softDelete,       \* configService.get('database.deletes.soft')
    req,              \* the request: headers, authorization, query, body, originalUrl
    apc,              \* position of auth(): "idle", "loop", "returned"
    idx,              \* index of the rule the for loop is at
    auth_passed,      \* the running result of auth()
    authResult,       \* <<the value auth() returned>>, <<>> before it returns
    calls,            \* collaborator calls issued so far, in order
    history,          \* the running result after each loop iteration
    cpc,              \* position of updateById(): stage about to run, or "sent"
    stages,           \* stages of updateById() invoked so far, in order
    role_where,       \* updateById's role_where list
    findOneWhere,     \* where-clause list handed to FIND_ONE
    permission,       \* what tablePermission returned
    response,         \* responses sent with res.status(..).send(..), in order
    store,            \* rows of the table the request updates, by id
    deleted           \* a concurrent request has deleted the row of the path id

vars == <<authentications, llanaAuthTable, isTest, softDelete, req, apc, idx,
          auth_passed, authResult, calls, history, cpc, stages, role_where,
          findOneWhere, permission, response, store, deleted>>

authVars == <<apc, idx, auth_passed, authResult, calls, history>>
configVars == <<authentications, llanaAuthTable, isTest, softDelete, req>>
putVars == <<cpc, stages, role_where, findOneWhere, permission, response>>
storeVars == <<store, deleted>>

-----------------------------------------------------------------------------
(* Bounds *)

MaxRules == 2

-----------------------------------------------------------------------------
(* Values *)

\* undefined / absent / empty string: every falsy value of the source
NoVal == ""
Truthy(x) == x # NoVal

LLANA_AUTH_TABLE == "_llana_auth"

APIKEY == "APIKEY"
JWT == "JWT"
HEADER == "HEADER"
QUERY == "QUERY"
BODY == "BODY"

\* AuthRestrictionsResponse
Pass(identity) == [valid |-> TRUE, message |-> <<>>, user_identifier |-> identity]
Fail(msg) == [valid |-> FALSE, message |-> msg, user_identifier |-> NoVal]

Unauthorized == Fail(<<"Unauthorized">>)

\* mutant of Permissive: fail closed when nothing is configured
PermissiveDenies == Fail(<<"Unauthorized">>)

\* lines 33-37: the result when no authentication is configured
Permissive == [valid |-> TRUE, message |-> <<>>, user_identifier |-> NoVal]

\* mutant of DefaultResult: the running result starts out valid
DefaultResultValid == [valid |-> TRUE, message |-> <<>>, user_identifier |-> NoVal]

\* lines 41-44: the running result before any rule is looked at
DefaultResult == Fail(<<"Unauthorized">>)

\* a collaborator call: the rule it was issued for (0: before the loop), the
\* operation, its argument and what it answered
Call(k, op, arg, result) == [rule |-> k, op |-> op, arg |-> arg, result |-> result]

-----------------------------------------------------------------------------
(* Collaborators of auth(): Schema, Query, JwtService, the request *)

\* Schema.getSchema: the structural metadata of a table, <<>> when it throws
getSchema(name) ==
    CASE name = "users" ->
            <<[table |-> "users", primary_key |-> "id",
               columns |-> {"id", "api_key", "email"}, relations |-> {"keys"}]>>
      [] name = "keys" ->
            <<[table |-> "keys", primary_key |-> "id",
               columns |-> {"id", "api_key"}, relations |-> {}]>>
      [] name = "logs" ->
            <<[table |-> "logs", primary_key |-> NoVal,
               columns |-> {"line"}, relations |-> {}]>>
      [] name = LLANA_AUTH_TABLE ->
            <<[table |-> LLANA_AUTH_TABLE, primary_key |-> "id",
               columns |-> {"id", "auth", "table", "exclude"}, relations |-> {}]>>
      [] OTHER -> <<>>

\* Schema.validateFields(schema, dotted path): a column is a path of segments,
\* <<"api_key">> for a plain column, <<"keys", "api_key">> for "keys.api_key"
validateFields(schema, column) ==
    IF Len(column) = 1 /\ column[1] \in schema.columns
    THEN [valid |-> TRUE, message |-> <<>>,
          fields |-> <<<<schema.table, column[1]>>>>, relations |-> <<>>]
    ELSE IF Len(column) = 2 /\ column[1] \in schema.relations
            /\ getSchema(column[1]) # <<>>
            /\ column[2] \in getSchema(column[1])[1].columns
    THEN [valid |-> TRUE, message |-> <<>>,
          fields |-> <<column>>, relations |-> <<[table |-> column[1]]>>]
    ELSE [valid |-> FALSE, message |-> <<"Field not found in table schema", column>>,
          fields |-> <<>>, relations |-> <<>>]

\* Query.perform(FIND_MANY, where auth = type) on the LLANA_AUTH_TABLE
FindManyAuth(type) == {r \in llanaAuthTable : r.auth = type}

\* String.prototype.includes on character sequences
StrIncludes(s, t) ==
    \E k \in 0..Len(s) : k + Len(t) <= Len(s) /\ SubSeq(s, k + 1, k + Len(t)) = t

\* result[name]: a property of the fetched row, NoVal when it has none
Prop(row, name) == IF name \in DOMAIN row THEN row[name] ELSE NoVal

\* result[api_key_config.column]: the row has no property whose name is a dotted path
ColumnProp(row, column) ==
    IF Len(column) = 1 THEN Prop(row, column[1]) ELSE NoVal

\* utils/Find.findDotNotation(result, 'a.b'): walks the path into the row
findDotNotation(row, column) ==
    IF Len(column) = 1 THEN Prop(row, column[1])
    ELSE IF Len(column) = 2 /\ column[1] \in DOMAIN row
    THEN Prop(row[column[1]], column[2])
    ELSE NoVal

\* JwtService.verifyAsync(token, secret): the payload, or not ok when it throws
verifyAsync(token) ==
    CASE token = "good" -> [ok |-> TRUE, sub |-> "u1"]
      [] token = "nosub" -> [ok |-> TRUE, sub |-> NoVal]
      [] OTHER -> [ok |-> FALSE, sub |-> NoVal]

\* req.headers[name] / req.query[name] / req.body[name]
ReqValue(location, name) ==
    LET bag == CASE location = HEADER -> req.headers
                 [] location = QUERY -> req.query
                 [] location = BODY -> req.body
    IN IF name \in DOMAIN bag THEN bag[name] ELSE NoVal

\* mutant of LocationWord: the header message names the query
LocationWordSwapped(location) ==
    CASE location = HEADER -> "API key query"
      [] location = QUERY -> "API key header"
      [] location = BODY -> "API key body"

LocationWord(location) ==
    CASE location = HEADER -> "API key header"
      [] location = QUERY -> "API key query"
      [] location = BODY -> "API key body"

-----------------------------------------------------------------------------
(* One iteration of the for loop of auth() *)

\* what an iteration leaves: the running result, whether auth() returned it,
\* and the collaborator calls the iteration issued
Out(passed, ret, c) == [passed |-> passed, ret |-> ret, calls |-> c]

\* lines 58-90: is the rule required on the current route?
CheckRequired(rules, url) ==
    LET excludes == {r \in rules : r.exclude}
        includes == {r \in rules : r.exclude}
    IN IF \E include \in includes : StrIncludes(url, include.table) THEN TRUE
       ELSE IF \E exclude \in excludes : StrIncludes(url, exclude.table) THEN FALSE
       ELSE TRUE

\* mutant of KeyRejected: only a missing row is rejected, the key is not compared
KeyRejectedNoCompare(found, column, req_api_key) == found = <<>>

\* lines 249-253: !result || (!result[column] && findDotNotation(result, column)) !== key
\* (a truthy result[column] makes the left operand `false`, which never equals the key)
KeyRejected(found, column, req_api_key) ==
    \/ found = <<>>
    \/ IF Truthy(ColumnProp(found[1], column))
       THEN TRUE
       ELSE findDotNotation(found[1], column) # req_api_key

\* lines 203-244: the options handed to FIND
FindOptions(auth, schema, identity_column, req_api_key) ==
    LET vf == validateFields(schema, auth.table.column)
        first == <<auth.table.name, identity_column>>
    IN [schema |-> schema.table,
        fields |-> <<first>> \o SelectSeq(vf.fields, LAMBDA f : f # first),
        where |-> <<[column |-> auth.table.column, operator |-> "equals",
                     value |-> req_api_key]>>
                  \o (IF Truthy(softDelete)
                      THEN <<[column |-> <<softDelete>>, operator |-> "null",
                              value |-> NoVal]>>
                      ELSE <<>>),
        relations |-> vf.relations]

\* mutant of ApiKeyLookup: the matched row is stamped with an UPDATE
ApiKeyLookupStamps(k, auth, schema, identity_column, req_api_key, found, c) ==
    LET c3 == c \o <<Call(k, "validateFields", auth.table.column,
                          validateFields(schema, auth.table.column).valid),
                     Call(k, "FIND",
                          FindOptions(auth, schema, identity_column, req_api_key),
                          found),
                     Call(k, "UPDATE", auth.table.name, found)>>
    IN IF KeyRejected(found, auth.table.column, req_api_key)
       THEN Out(Unauthorized, TRUE, c3)
       ELSE IF ~Truthy(Prop(found[1], identity_column))
       THEN Out(Fail(<<"System configuration error: Identity column",
                       identity_column, "not found">>), TRUE, c3)
       ELSE Out(Pass(found[1][identity_column]), FALSE, c3)

\* mutant of ApiKeyLookup: a row without the identity column still passes
ApiKeyLookupAnyIdentity(k, auth, schema, identity_column, req_api_key, found, c) ==
    LET c3 == c \o <<Call(k, "validateFields", auth.table.column,
                          validateFields(schema, auth.table.column).valid),
                     Call(k, "FIND",
                          FindOptions(auth, schema, identity_column, req_api_key),
                          found)>>
    IN IF KeyRejected(found, auth.table.column, req_api_key)
       THEN Out(Unauthorized, TRUE, c3)
       ELSE Out(Pass(Prop(found[1], identity_column)), FALSE, c3)

\* lines 203-280: the lookup of an API key and what it decides
ApiKeyLookup(k, auth, schema, identity_column, req_api_key, found, c) ==
    LET c3 == c \o <<Call(k, "validateFields", auth.table.column,
                          validateFields(schema, auth.table.column).valid),
                     Call(k, "FIND",
                          FindOptions(auth, schema, identity_column, req_api_key),
                          found)>>
    IN IF KeyRejected(found, auth.table.column, req_api_key)
       THEN Out(Unauthorized, TRUE, c3)
       ELSE IF ~Truthy(Prop(found[1], identity_column))
       THEN Out(Fail(<<"System configuration error: Identity column",
                       identity_column, "not found">>), TRUE, c3)
       ELSE Out(Pass(found[1][identity_column]), FALSE, c3)

\* mutant of MissingKey: a missing key ends auth() with `return`
MissingKeyReturns(auth, c) ==
    [passed |-> Fail(<<LocationWord(auth.location), auth.name, "required">>),
     ret |-> TRUE, calls |-> c]

\* lines 128-161: the configured location of the request holds no key
MissingKey(auth, c) ==
    Out(Fail(<<LocationWord(auth.location), auth.name, "required">>), FALSE, c)

\* lines 109-280: case AuthType.APIKEY
ApiKeyRule(k, auth, schema, identity_column, found, c) ==
    IF ~Truthy(auth.name)
    THEN Out(Fail(<<"System configuration error: API key name required">>), FALSE, c)
    ELSE IF ~Truthy(auth.location)
    THEN Out(Fail(<<"System configuration error: API key location required">>), FALSE, c)
    ELSE IF auth.location \in {HEADER, QUERY, BODY}
            /\ ~Truthy(ReqValue(auth.location, auth.name))
    THEN MissingKey(auth, c)
    ELSE IF auth.location \notin {HEADER, QUERY, BODY}
    THEN Out(Fail(<<"API key required">>), FALSE, c)
    ELSE IF isTest
    THEN Out(Pass(NoVal), FALSE, c)
    ELSE IF ~Truthy(auth.table.name)
    THEN Out(Fail(<<"System configuration error: API Key lookup table not found">>),
             FALSE, c)
    ELSE IF auth.table.column = <<>>
    THEN Out(Fail(<<"System configuration error: API Key lookup column not found">>),
             FALSE, c)
    ELSE ApiKeyLookup(k, auth, schema, identity_column,
                      ReqValue(auth.location, auth.name), found, c)

\* mutant of JwtRule: a token that fails verification ends auth() with `return`
JwtRuleFatal(k, c) ==
    LET jwt_token == IF Len(req.authorization) >= 2 THEN req.authorization[2] ELSE NoVal
    IN IF ~Truthy(jwt_token)
       THEN Out(Fail(<<"JWT token required">>), FALSE, c)
       ELSE LET payload == verifyAsync(jwt_token)
                c3 == c \o <<Call(k, "verifyAsync", jwt_token, payload)>>
            IN IF payload.ok
               THEN Out(Pass(payload.sub), FALSE, c3)
               ELSE Out(Fail(<<"JWT Authentication Failed">>), TRUE, c3)

\* lines 282-311: case AuthType.JWT
JwtRule(k, c) ==
    LET jwt_token == IF Len(req.authorization) >= 2 THEN req.authorization[2] ELSE NoVal
    IN IF ~Truthy(jwt_token)
       THEN Out(Fail(<<"JWT token required">>), FALSE, c)
       ELSE LET payload == verifyAsync(jwt_token)
                c3 == c \o <<Call(k, "verifyAsync", jwt_token, payload)>>
            IN IF payload.ok
               THEN Out(Pass(payload.sub), FALSE, c3)
               ELSE Out(Fail(<<"JWT Authentication Failed">>), FALSE, c3)

\* lines 92-312: an applicable rule: resolve the lookup schema, dispatch on the type
ApplyRule(k, auth, passed, found, c) ==
    LET schema == getSchema(auth.table.name)
        c2 == c \o <<Call(k, "getSchema", auth.table.name, schema # <<>>)>>
    IN IF schema = <<>>
       THEN Out(Fail(<<"No Schema Found For Table", auth.table.name>>), TRUE, c2)
       ELSE LET identity_column ==
                    IF Truthy(auth.table.identity_column)
                    THEN auth.table.identity_column
                    ELSE schema[1].primary_key
            IN CASE auth.type = APIKEY ->
                        ApiKeyRule(k, auth, schema[1], identity_column, found, c2)
                 [] auth.type = JWT -> JwtRule(k, c2)
                 [] OTHER -> Out(passed, FALSE, c2)

\* mutant of SkipsRule: the loop lacks `if (auth_passed.valid) continue`
SkipsRuleNever(passed) == FALSE

\* line 47: a rule is looked at only while the running result is not valid
SkipsRule(passed) == passed.valid

\* lines 46-313: the body of the for loop for rule k
RuleStep(k, auth, passed, found) ==
    IF SkipsRule(passed)
    THEN Out(passed, FALSE, <<>>)
    ELSE IF ~Truthy(auth.type)
    THEN Out(Fail(<<"System configuration error: Restriction type required">>),
             FALSE, <<>>)
    ELSE LET c1 == <<Call(k, "FIND_MANY", auth.type, FindManyAuth(auth.type))>>
         IN IF ~CheckRequired(FindManyAuth(auth.type), req.originalUrl)
            THEN Out(passed, FALSE, c1)
            ELSE ApplyRule(k, auth, passed, found, c1)

-----------------------------------------------------------------------------
(* Configurations, requests and lookup results the model draws from *)

Rule(type, name, location, tname, column, idcol) ==
    [type |-> type, name |-> name, location |-> location,
     table |-> [name |-> tname, column |-> column, identity_column |-> idcol]]

KeyName == "x-api-key"
PlainColumn == <<"api_key">>
DottedColumn == <<"keys", "api_key">>

HeaderPlainRule == Rule(APIKEY, KeyName, HEADER, "users", PlainColumn, "id")
HeaderDottedRule == Rule(APIKEY, KeyName, HEADER, "users", DottedColumn, NoVal)
QueryNoColumnRule == Rule(APIKEY, KeyName, QUERY, "users", <<>>, "id")
BodyBogusRule == Rule(APIKEY, KeyName, BODY, "users", <<"bogus">>, "id")
TokenRule == Rule(JWT, NoVal, NoVal, "users", <<>>, NoVal)

RuleUniverse ==
    { Rule(NoVal, KeyName, HEADER, "users", PlainColumn, "id"),
      Rule(APIKEY, NoVal, HEADER, "users", PlainColumn, "id"),
      Rule(APIKEY, KeyName, NoVal, "users", PlainColumn, "id"),
      Rule(APIKEY, KeyName, HEADER, "ghost", PlainColumn, "id"),
      HeaderPlainRule, HeaderDottedRule, QueryNoColumnRule, BodyBogusRule, TokenRule }

RuleLists == UNION {[1..n -> RuleUniverse] : n \in 0..MaxRules}

Configs == {[present |-> FALSE, list |-> <<>>]}
           \cup {[present |-> TRUE, list |-> l] : l \in RuleLists}

\* the request is PUT /users/42
Url == <<"/", "u", "s", "e", "r", "s", "/", "4", "2">>

\* the unique column's value in the body of the update request
BodyEmail == "a@b.com"

Request(h, q, b, a, url) ==
    [headers |-> [n \in {KeyName} |-> h], query |-> [n \in {KeyName} |-> q],
     body |-> [n \in {KeyName, "email"} |-> IF n = KeyName THEN b ELSE BodyEmail],
     authorization |-> a, originalUrl |-> url]

Requests ==
    { Request(NoVal, NoVal, NoVal, a, Url) :
        a \in {<<>>, <<"good">>, <<"Bearer", "good">>, <<"Bearer", "bad">>,
               <<"Bearer", "nosub">>} }
    \cup { Request("K1", NoVal, NoVal, a, Url) :
             a \in {<<>>, <<"Bearer", "good">>, <<"Bearer", "bad">>} }
    \cup { Request("K2", NoVal, NoVal, <<>>, Url),
           Request(NoVal, "K1", NoVal, <<>>, Url),
           Request(NoVal, NoVal, "K1", <<>>, Url) }

RouteEntry(type, table, exclude) == [auth |-> type, table |-> table, exclude |-> exclude]

AuthTables ==
    { {},
      {RouteEntry(APIKEY, <<"u", "s", "e", "r", "s">>, TRUE)},
      {RouteEntry(APIKEY, <<"u", "s", "e", "r", "s">>, TRUE),
       RouteEntry(APIKEY, <<"u", "s", "e", "r", "s">>, FALSE)},
      {RouteEntry(JWT, <<"u", "s", "e", "r">>, TRUE),
       RouteEntry(APIKEY, <<"r", "o", "l", "e", "s">>, TRUE)} }

\* Env.IsTest(), 'database.deletes.soft', LLANA_AUTH_TABLE rows
Environments ==
    { [isTest |-> FALSE, softDelete |-> NoVal, table |-> e] : e \in AuthTables }
    \cup { [isTest |-> TRUE, softDelete |-> NoVal, table |-> {}],
           [isTest |-> FALSE, softDelete |-> "deleted_at", table |-> {}] }

Row(plain, nested, id) == [api_key |-> plain, id |-> id, keys |-> [api_key |-> nested]]

\* what Query.perform(FIND, options) may answer: no row, or a row
FindResults ==
    { <<>>, <<Row("K1", "K1", "u1")>>, <<Row("K1", "K1", NoVal)>>,
      <<Row("K2", "K1", "u1")>>, <<Row("K1", "K2", "u1")>>,
      <<Row(NoVal, "K1", "u2")>> }

-----------------------------------------------------------------------------
(* auth(), one step per loop iteration *)

InitConfig ==
    /\ authentications \in Configs
    /\ req \in Requests
    /\ \E env \in Environments :
          /\ isTest = env.isTest
          /\ softDelete = env.softDelete
          /\ llanaAuthTable = env.table

InitAuth ==
    /\ apc = "idle"
    /\ idx = 0
    /\ auth_passed = DefaultResult
    /\ authResult = <<>>
    /\ calls = <<>>
    /\ history = <<>>

InitPut ==
    /\ stages = <<>>
    /\ role_where = <<>>
    /\ findOneWhere = <<>>
    /\ permission = <<>>
    /\ response = <<>>

\* the id of the path, and the id of another row of the table
Ids == {"42", "7"}

NoRows == [i \in Ids |-> <<>>]

Init ==
    /\ InitConfig /\ InitAuth /\ InitPut
    /\ cpc = "none"
    /\ store = NoRows
    /\ deleted = FALSE

\* lines 31-37: no configuration
AuthNoConfig ==
    /\ apc = "idle"
    /\ ~authentications.present
    /\ authResult' = <<Permissive>>
    /\ apc' = "returned"
    /\ UNCHANGED <<idx, auth_passed, calls, history>>

\* lines 39-44: the schema of the auth table, the default running result
AuthBegin ==
    /\ apc = "idle"
    /\ authentications.present
    /\ calls' = calls \o <<Call(0, "getSchema", LLANA_AUTH_TABLE, TRUE)>>
    /\ auth_passed' = DefaultResult
    /\ idx' = 1
    /\ apc' = "loop"
    /\ UNCHANGED <<authResult, history>>

\* an iteration that ends with `continue` or `break`: on to the next rule
AuthRuleNext ==
    /\ apc = "loop"
    /\ idx <= Len(authentications.list)
    /\ \E found \in FindResults :
          LET o == RuleStep(idx, authentications.list[idx], auth_passed, found)
          IN /\ ~o.ret
             /\ auth_passed' = o.passed
             /\ calls' = calls \o o.calls
             /\ history' = Append(history, o.passed)
    /\ idx' = idx + 1
    /\ UNCHANGED <<apc, authResult>>

\* an iteration that ends with `return`
AuthRuleReturn ==
    /\ apc = "loop"
    /\ idx <= Len(authentications.list)
    /\ \E found \in FindResults :
          LET o == RuleStep(idx, authentications.list[idx], auth_passed, found)
          IN /\ o.ret
             /\ authResult' = <<o.passed>>
             /\ calls' = calls \o o.calls
             /\ history' = Append(history, o.passed)
    /\ apc' = "returned"
    /\ UNCHANGED <<idx, auth_passed>>

\* line 315: return auth_passed
AuthEnd ==
    /\ apc = "loop"
    /\ idx > Len(authentications.list)
    /\ authResult' = <<auth_passed>>
    /\ apc' = "returned"
    /\ UNCHANGED <<idx, auth_passed, calls, history>>

Next ==
    \/ AuthNoConfig /\ UNCHANGED <<configVars, putVars, storeVars>>
    \/ AuthBegin /\ UNCHANGED <<configVars, putVars, storeVars>>
    \/ AuthRuleNext /\ UNCHANGED <<configVars, putVars, storeVars>>
    \/ AuthRuleReturn /\ UNCHANGED <<configVars, putVars, storeVars>>
    \/ AuthEnd /\ UNCHANGED <<configVars, putVars, storeVars>>

Spec == Init /\ [][Next]_vars

-----------------------------------------------------------------------------
(* auth() as one call: the for loop run to its end *)

RECURSIVE AuthLoop(_, _, _, _)
\* lines 46-315: the loop from rule k on; oracle[k] is what FIND answers for rule k
AuthLoop(k, passed, c, oracle) ==
    IF k > Len(authentications.list)
    THEN [result |-> passed, calls |-> c]
    ELSE LET o == RuleStep(k, authentications.list[k], passed, oracle[k])
         IN IF o.ret
            THEN [result |-> o.passed, calls |-> c \o o.calls]
            ELSE AuthLoop(k + 1, o.passed, c \o o.calls, oracle)

\* lines 30-316
auth(oracle) ==
    IF ~authentications.present
    THEN [result |-> Permissive, calls |-> <<>>]
    ELSE AuthLoop(1, DefaultResult, <<Call(0, "getSchema", LLANA_AUTH_TABLE, TRUE)>>,
                  oracle)

-----------------------------------------------------------------------------
(* updateById(), one step per pipeline stage *)

MaxPutRules == 1

PutConfigs ==
    {[present |-> FALSE, list |-> <<>>]}
    \cup {[present |-> TRUE, list |-> l] :
            l \in UNION {[1..n -> RuleUniverse] : n \in 0..MaxPutRules}}

PutUrls ==
    { Url, <<"/", "g", "h", "o", "s", "t", "/", "4", "2">>,
      <<"/", "l", "o", "g", "s", "/", "4", "2">> }

PutRequests ==
    { Request(h, NoVal, NoVal, a, u) :
        h \in {NoVal, "K1"}, a \in {<<>>, <<"Bearer", "good">>}, u \in {Url} }
    \cup { Request("K1", NoVal, NoVal, <<"Bearer", "nosub">>, u) : u \in PutUrls }

\* Helpers/Database.UrlToTable(originalUrl, 1): the first path segment
UrlToTable(url) ==
    LET rest == SubSeq(url, 2, Len(url))
        stop == IF \E k \in 1..Len(rest) : rest[k] = "/"
                THEN CHOOSE k \in 1..Len(rest) :
                        rest[k] = "/" /\ \A j \in 1..(k - 1) : rest[j] # "/"
                ELSE Len(rest) + 1
        name == SubSeq(rest, 1, stop - 1)
    IN CASE name = <<"u", "s", "e", "r", "s">> -> "users"
         [] name = <<"l", "o", "g", "s">> -> "logs"
         [] name = <<"g", "h", "o", "s", "t">> -> "ghost"
         [] OTHER -> NoVal

\* @Param('id')
PathId == "42"

\* Schema.getPrimaryKey(schema)
getPrimaryKey(schema) == schema.primary_key

Restriction == [column |-> "owner", operator |-> "equals", value |-> "u1"]

\* what Roles.tablePermission may answer
Permissions ==
    { [valid |-> FALSE, message |-> <<"Unauthorized">>, restriction |-> <<>>],
      [valid |-> TRUE, message |-> <<>>, restriction |-> <<>>],
      [valid |-> TRUE, message |-> <<>>, restriction |-> <<Restriction>>] }

\* Array.prototype.concat: a new array, the receiver is left as it is
Concat(a, b) == a \o b

\* lines 102-112: the where-clause list of the existence check
ExistenceWhere(primary_key, id, rw) ==
    LET where == <<[column |-> primary_key, operator |-> "equals", value |-> id]>>
        discarded == IF Len(rw) > 0 THEN Concat(where, rw) ELSE <<>>
    IN where

Send(status, body) == response' = Append(response, [status |-> status, body |-> body])

table_name == UrlToTable(req.originalUrl)

-----------------------------------------------------------------------------
(* The Query Engine on the table the request updates *)

StoreRow(id, email, owner) == [id |-> id, email |-> email, owner |-> owner]

\* the tables the request may meet: the unique column holds no value twice
Stores ==
    { st \in [Ids -> { <<>>,
                       <<StoreRow("42", BodyEmail, "u2")>>,
                       <<StoreRow("42", "c@d.com", "u1")>>,
                       <<StoreRow("7", BodyEmail, "u1")>>,
                       <<StoreRow("7", "c@d.com", "u1")>> }] :
        /\ \A i \in Ids : st[i] # <<>> => st[i][1].id = i
        /\ \A i, j \in Ids :
              (i # j /\ st[i] # <<>> /\ st[j] # <<>>) => st[i][1].email # st[j][1].email }

\* the unique-constrained columns of the table
UniqueColumns == {"email"}

\* Query.perform(UNIQUE, {schema, data, id}): no row other than the excluded id
\* holds a value the data gives to a unique column
IsUnique(st, data, id) ==
    \A c \in UniqueColumns \cap DOMAIN data :
        ~\E i \in Ids : i # id /\ st[i] # <<>> /\ st[i][1][c] = data[c]

\* Query.perform(FIND_ONE, {schema, where}): a row meeting every clause, or none
FindOne(st, where) ==
    LET hits == {i \in Ids : /\ st[i] # <<>>
                             /\ \A n \in 1..Len(where) :
                                   st[i][1][where[n].column] = where[n].value}
    IN IF hits = {} THEN <<>> ELSE st[CHOOSE i \in hits : TRUE]

\* Schema.validateData(schema, body).instance: the columns of the table in the body
Instance(body) == [email |-> body.email]

\* Query.perform(UPDATE, {id, schema, data}): the updated row; raises RecordNotFound
\* for an id that has no row, and raises when the storage fails
QueryUpdate(st, id, data, failure) ==
    IF st[id] = <<>>
    THEN [raised |-> TRUE, message |-> <<"RecordNotFound", id>>, row |-> <<>>,
          store |-> st]
    ELSE IF failure
    THEN [raised |-> TRUE, message |-> <<"StorageFailure">>, row |-> <<>>, store |-> st]
    ELSE LET row == [st[id][1] EXCEPT !.email = data.email]
         IN [raised |-> FALSE, message |-> <<>>, row |-> <<row>>,
             store |-> [st EXCEPT ![id] = <<row>>]]

-----------------------------------------------------------------------------
(* updateById(), one step per pipeline stage *)

authRest == <<apc, idx, auth_passed, authResult, history>>

InitPutConfig ==
    /\ authentications \in PutConfigs
    /\ req \in PutRequests
    /\ isTest \in BOOLEAN
    /\ softDelete = NoVal
    /\ llanaAuthTable = {}

PutInit ==
    /\ InitPutConfig /\ InitAuth /\ InitPut
    /\ cpc = "schema"
    /\ store \in Stores
    /\ deleted = FALSE

\* lines 36-42: schema resolution
PutSchema ==
    /\ cpc = "schema"
    /\ stages' = Append(stages, "getSchema")
    /\ IF getSchema(table_name) = <<>>
       THEN Send(404, <<"SchemaNotFound", table_name>>) /\ cpc' = "sent"
       ELSE cpc' = "auth" /\ UNCHANGED response
    /\ UNCHANGED <<role_where, findOneWhere, permission, authVars, store>>

\* lines 44-47: authentication
PutAuth ==
    /\ cpc = "auth"
    /\ stages' = Append(stages, "auth")
    /\ \E oracle \in [1..Len(authentications.list) -> FindResults] :
          LET a == auth(oracle)
          IN /\ authResult' = <<a.result>>
             /\ auth_passed' = a.result
             /\ calls' = calls \o a.calls
             /\ IF ~a.result.valid
                THEN Send(401, a.result.message) /\ cpc' = "sent"
                ELSE cpc' = "roles" /\ UNCHANGED response
    /\ apc' = "returned"
    /\ UNCHANGED <<idx, history, role_where, findOneWhere, permission, store>>

\* mutant of PutRoles: a denied permission does not end the request
PutRolesIgnoresDenial ==
    /\ cpc = "roles"
    /\ IF Truthy(authResult[1].user_identifier)
       THEN \E p \in Permissions :
               /\ stages' = Append(stages, "tablePermission")
               /\ calls' = Append(calls,
                     Call(0, "tablePermission",
                          [identifier |-> authResult[1].user_identifier,
                           table |-> table_name, access |-> "WRITE"], p))
               /\ permission' = <<p>>
               /\ role_where' = p.restriction
               /\ cpc' = "validate"
               /\ UNCHANGED response
       ELSE /\ role_where' = <<>>
            /\ cpc' = "validate"
            /\ UNCHANGED <<stages, calls, permission, response>>
    /\ UNCHANGED <<findOneWhere, authRest, store>>

\* lines 49-68: role check
PutRoles ==
    /\ cpc = "roles"
    /\ IF Truthy(authResult[1].user_identifier)
       THEN \E p \in Permissions :
               /\ stages' = Append(stages, "tablePermission")
               /\ calls' = Append(calls,
                     Call(0, "tablePermission",
                          [identifier |-> authResult[1].user_identifier,
                           table |-> table_name, access |-> "WRITE"], p))
               /\ permission' = <<p>>
               /\ IF ~p.valid
                  THEN Send(401, p.message) /\ cpc' = "sent" /\ role_where' = <<>>
                  ELSE /\ role_where' = p.restriction
                       /\ cpc' = "validate"
                       /\ UNCHANGED response
       ELSE /\ role_where' = <<>>
            /\ cpc' = "validate"
            /\ UNCHANGED <<stages, calls, permission, response>>
    /\ UNCHANGED <<findOneWhere, authRest, store>>

\* lines 70-74: validate input data
PutValidate ==
    /\ cpc = "validate"
    /\ stages' = Append(stages, "validateData")
    /\ \E valid \in BOOLEAN :
          IF ~valid
          THEN Send(400, <<"ValidationError">>) /\ cpc' = "sent"
          ELSE cpc' = "key" /\ UNCHANGED response
    /\ UNCHANGED <<role_where, findOneWhere, permission, authVars, store>>

\* lines 76-86: validate the :id field
PutValidateKey ==
    /\ cpc = "key"
    /\ LET primary_key == getPrimaryKey(getSchema(table_name)[1])
       IN IF ~Truthy(primary_key)
          THEN /\ Send(400, <<"No primary key found for table", table_name>>)
               /\ cpc' = "sent"
               /\ stages' = Append(stages, "getPrimaryKey")
          ELSE /\ stages' = stages \o <<"getPrimaryKey", "validateKey">>
               /\ \E valid \in BOOLEAN :
                     IF ~valid
                     THEN Send(400, <<"ValidationError">>) /\ cpc' = "sent"
                     ELSE cpc' = "unique" /\ UNCHANGED response
    /\ UNCHANGED <<role_where, findOneWhere, permission, authVars, store>>

\* mutant of UniqueCheck: no id is excluded
UniqueCheckNoId == IsUnique(store, req.body, NoVal)

\* lines 89-97: the UNIQUE check is given the body and the path id
UniqueCheck == IsUnique(store, req.body, PathId)

\* mutant of PutUnique: the 400 is sent but the handler does not return
PutUniqueNoReturn ==
    /\ cpc = "unique"
    /\ stages' = Append(stages, "UNIQUE")
    /\ calls' = Append(calls, Call(0, "UNIQUE", [data |-> req.body, id |-> PathId],
                                   UniqueCheck))
    /\ IF ~UniqueCheck
       THEN Send(400, <<"Unique constraint">>) /\ cpc' = "find"
       ELSE cpc' = "find" /\ UNCHANGED response
    /\ UNCHANGED <<role_where, findOneWhere, permission, authRest, store>>

\* lines 88-100: validate uniqueness
PutUnique ==
    /\ cpc = "unique"
    /\ stages' = Append(stages, "UNIQUE")
    /\ calls' = Append(calls, Call(0, "UNIQUE", [data |-> req.body, id |-> PathId],
                                   UniqueCheck))
    /\ IF ~UniqueCheck
       THEN Send(400, <<"Unique constraint">>) /\ cpc' = "sent"
       ELSE cpc' = "find" /\ UNCHANGED response
    /\ UNCHANGED <<role_where, findOneWhere, permission, authRest, store>>

\* mutant of PutFindOne: the 400 is sent but the handler goes on to the update
PutFindOneNoReturn ==
    /\ cpc = "find"
    /\ stages' = Append(stages, "FIND_ONE")
    /\ LET where == ExistenceWhere(getPrimaryKey(getSchema(table_name)[1]), PathId,
                                   role_where)
           record == FindOne(store, where)
       IN /\ findOneWhere' = where
          /\ calls' = Append(calls, Call(0, "FIND_ONE", [where |-> where], record))
          /\ IF record = <<>>
             THEN Send(400, <<"Record with id", PathId, "not found">>) /\ cpc' = "update"
             ELSE cpc' = "update" /\ UNCHANGED response
    /\ UNCHANGED <<role_where, permission, authRest, store>>

\* lines 102-127: check the record exists
PutFindOne ==
    /\ cpc = "find"
    /\ stages' = Append(stages, "FIND_ONE")
    /\ LET where == ExistenceWhere(getPrimaryKey(getSchema(table_name)[1]), PathId,
                                   role_where)
           record == FindOne(store, where)
       IN /\ findOneWhere' = where
          /\ calls' = Append(calls, Call(0, "FIND_ONE", [where |-> where], record))
          /\ IF record = <<>>
             THEN Send(400, <<"Record with id", PathId, "not found">>) /\ cpc' = "sent"
             ELSE cpc' = "update" /\ UNCHANGED response
    /\ UNCHANGED <<role_where, permission, authRest, store>>

\* mutant of PutUpdate: the catch answers 200 as the try does
PutUpdateSwallows ==
    /\ cpc = "update"
    /\ stages' = Append(stages, "UPDATE")
    /\ \E failure \in BOOLEAN :
          LET u == QueryUpdate(store, PathId, Instance(req.body), failure)
          IN /\ calls' = Append(calls,
                    Call(0, "UPDATE", [id |-> PathId, data |-> Instance(req.body)], u))
             /\ store' = u.store
             /\ Send(200, u.row)
    /\ cpc' = "sent"
    /\ UNCHANGED <<role_where, findOneWhere, permission, authRest>>

\* mutant of PutUpdate: the UPDATE is not guarded, a failure leaves no response
PutUpdateUnguarded ==
    /\ cpc = "update"
    /\ stages' = Append(stages, "UPDATE")
    /\ \E failure \in BOOLEAN :
          LET u == QueryUpdate(store, PathId, Instance(req.body), failure)
          IN /\ calls' = Append(calls,
                    Call(0, "UPDATE", [id |-> PathId, data |-> Instance(req.body)], u))
             /\ store' = u.store
             /\ IF u.raised
                THEN UNCHANGED response
                ELSE Send(200, u.row)
    /\ cpc' = "sent"
    /\ UNCHANGED <<role_where, findOneWhere, permission, authRest>>

\* lines 129-143: the update
PutUpdate ==
    /\ cpc = "update"
    /\ stages' = Append(stages, "UPDATE")
    /\ \E failure \in BOOLEAN :
          LET u == QueryUpdate(store, PathId, Instance(req.body), failure)
          IN /\ calls' = Append(calls,
                    Call(0, "UPDATE", [id |-> PathId, data |-> Instance(req.body)], u))
             /\ store' = u.store
             /\ IF u.raised
                THEN Send(400, u.message)
                ELSE Send(200, u.row)
    /\ cpc' = "sent"
    /\ UNCHANGED <<role_where, findOneWhere, permission, authRest>>

PutNext ==
    \/ PutSchema /\ UNCHANGED <<configVars, deleted>>
    \/ PutAuth /\ UNCHANGED <<configVars, deleted>>
    \/ PutRoles /\ UNCHANGED <<configVars, deleted>>
    \/ PutValidate /\ UNCHANGED <<configVars, deleted>>
    \/ PutValidateKey /\ UNCHANGED <<configVars, deleted>>
    \/ PutUnique /\ UNCHANGED <<configVars, deleted>>
    \/ PutFindOne /\ UNCHANGED <<configVars, deleted>>
    \/ PutUpdate /\ UNCHANGED <<configVars, deleted>>

SpecPut == PutInit /\ [][PutNext]_vars

\* the handler is an async function that runs to its end once it was called
SpecPutFair == PutInit /\ [][PutNext]_vars /\ WF_vars(PutNext)

-----------------------------------------------------------------------------
(* updateById() against a concurrent delete of the same row *)

\* another request's DELETE of the row of the path id takes effect
DeleteRow ==
    /\ cpc # "sent"
    /\ store[PathId] # <<>>
    /\ store' = [store EXCEPT ![PathId] = <<>>]
    /\ deleted' = TRUE
    /\ UNCHANGED <<configVars, authVars, putVars>>

RaceNext == PutNext \/ DeleteRow

SpecRace == PutInit /\ [][RaceNext]_vars

-----------------------------------------------------------------------------
(* Reading the call log *)

CallsOfRule(k) == {n \in 1..Len(calls) : calls[n].rule = k}
FindCalls == {n \in 1..Len(calls) : calls[n].op = "FIND"}

\* of a FIND call: the supplied key, the matching column, the fetched row's
\* value of the matching column
SuppliedKey(n) == calls[n].arg.where[1].value
MatchingColumn(n) == calls[n].arg.where[1].column
FetchedNothing(n) == calls[n].result = <<>>
FetchedValue(n) == findDotNotation(calls[n].result[1], MatchingColumn(n))
IdentityColumn(n) == calls[n].arg.fields[1][2]

Returned == apc = "returned"
\* the running result before iteration k
Before(k) == IF k = 1 THEN DefaultResult ELSE history[k - 1]

-----------------------------------------------------------------------------
(* C1..C10 *)

\* C1: with no authentication configuration auth() returns valid with no caller
\* identity, whatever the request, and issues no rule evaluation and no lookup.
C1_NoConfigIsValid ==
    (~authentications.present /\ Returned)
        => /\ authResult = <<[valid |-> TRUE, message |-> <<>>,
                              user_identifier |-> NoVal]>>
           /\ calls = <<>>
           /\ history = <<>>

\* C1 witness: auth() has returned for an unconfigured system and a request
\* that carries an API key and a bearer token
C1_Witness ==
    /\ ~authentications.present
    /\ Returned
    /\ req.headers[KeyName] = "K1"
    /\ req.authorization = <<"Bearer", "good">>

\* C2: once an iteration left a valid running result, no later rule issues any
\* call, the running result never changes again, and auth() returns that result.
C2_FirstPassWins ==
    \A k \in 1..Len(history) :
        history[k].valid
            => /\ \A j \in k..Len(history) : history[j] = history[k]
               /\ \A n \in 1..Len(calls) : calls[n].rule <= k
               /\ auth_passed = history[k]
               /\ Returned => authResult = <<history[k]>>

\* C2 witness: the first of two rules passed, the second one (a rule that would
\* issue lookups) was passed over, and auth() returned
C2_Witness ==
    /\ Returned
    /\ Len(history) = 2
    /\ history[1].valid
    /\ authentications.list[2] = HeaderPlainRule
    /\ req.headers[KeyName] = "K1"

\* C3: when the key lookup of a rule fetched no row, or a row whose matching
\* column differs from the supplied key, auth() returned 'Unauthorized' in that
\* very iteration and no later rule was looked at.
C3_MismatchIsFatal ==
    \A n \in FindCalls :
        (FetchedNothing(n) \/ FetchedValue(n) # SuppliedKey(n))
            => /\ Returned
               /\ authResult = <<[valid |-> FALSE, message |-> <<"Unauthorized">>,
                                  user_identifier |-> NoVal]>>
               /\ Len(history) = calls[n].rule
               /\ \A m \in 1..Len(calls) : calls[m].rule <= calls[n].rule

\* C3 witness: the fetched row differs from the key in the matching column (while
\* another column coincides with it), and a later token rule would have passed
C3_Witness ==
    /\ Returned
    /\ Len(authentications.list) = 2
    /\ authentications.list[2] = TokenRule
    /\ req.authorization = <<"Bearer", "good">>
    /\ \E n \in FindCalls :
          /\ calls[n].rule = 1
          /\ MatchingColumn(n) = DottedColumn
          /\ ~FetchedNothing(n)
          /\ FetchedValue(n) # SuppliedKey(n)
          /\ calls[n].result[1].api_key = SuppliedKey(n)

\* C4: when the key lookup fetched a row whose matching column equals the
\* supplied key and which carries the identity column, the rule passes with that
\* row's identity, for plain and for dotted matching columns alike.
C4_MatchPasses ==
    \A n \in FindCalls :
        ( /\ ~FetchedNothing(n)
          /\ FetchedValue(n) = SuppliedKey(n)
          /\ Truthy(Prop(calls[n].result[1], IdentityColumn(n))) )
            => /\ history[calls[n].rule]
                    = [valid |-> TRUE, message |-> <<>>,
                       user_identifier |-> calls[n].result[1][IdentityColumn(n)]]
               /\ Returned => authResult = <<history[calls[n].rule]>>


\* C5: when tablePermission granted access with a row-level restriction, the
\* where-clause list handed to FIND_ONE holds the primary-key clause and the
\* restriction clause.
C5_RestrictionInWhere ==
    ( /\ Len(stages) >= 1
      /\ \E n \in 1..Len(stages) : stages[n] = "FIND_ONE"
      /\ permission # <<>>
      /\ permission[1].valid
      /\ permission[1].restriction # <<>> )
        => /\ \E n \in 1..Len(findOneWhere) :
                findOneWhere[n] = [column |-> "id", operator |-> "equals",
                                   value |-> PathId]
           /\ \E n \in 1..Len(findOneWhere) :
                findOneWhere[n] = permission[1].restriction[1]

\* the stored route entries of a rule type, against the request URL
ExcludeMatches(type) ==
    \E e \in FindManyAuth(type) : e.exclude /\ StrIncludes(req.originalUrl, e.table)
IncludeMatches(type) ==
    \E e \in FindManyAuth(type) : ~e.exclude /\ StrIncludes(req.originalUrl, e.table)

\* C6: a rule with a matching exclude entry and no matching include entry is
\* skipped: the running result is left as it was and nothing but the route-entry
\* lookup is issued for it; with a matching include entry the rule is applied.
C6_ExcludedRuleSkipped ==
    \A k \in 1..Len(history) :
        LET rule == authentications.list[k]
        IN (Truthy(rule.type) /\ ~Before(k).valid /\ ExcludeMatches(rule.type))
              => IF IncludeMatches(rule.type)
                 THEN \E n \in CallsOfRule(k) : calls[n].op = "getSchema"
                 ELSE /\ history[k] = Before(k)
                      /\ \A n \in CallsOfRule(k) : calls[n].op = "FIND_MANY"

\* C7: a bearer token that fails verification leaves the running result
\* 'JWT Authentication Failed' without ending auth(): the loop moves on to the
\* next rule, which is evaluated, and when that rule passes auth() returns its
\* result.
C7_TokenFailureContinues ==
    \A n \in 1..Len(calls) :
        (calls[n].op = "verifyAsync" /\ ~calls[n].result.ok)
            => LET k == calls[n].rule
               IN /\ history[k] = [valid |-> FALSE,
                                   message |-> <<"JWT Authentication Failed">>,
                                   user_identifier |-> NoVal]
                  /\ (Len(history) = k /\ k < Len(authentications.list))
                        => (apc = "loop" /\ idx = k + 1 /\ authResult = <<>>)
                  /\ (Len(history) = k /\ Returned) => authResult = <<history[k]>>
                  /\ (Len(history) > k /\ Truthy(authentications.list[k + 1].type))
                        => \E m \in CallsOfRule(k + 1) : calls[m].op = "FIND_MANY"
                  /\ (Len(history) > k /\ history[k + 1].valid /\ Returned)
                        => authResult = <<history[k + 1]>>

\* C7 witness: the token of the first rule failed verification, the API-key rule
\* after it passed, and auth() returned valid with that rule's identity
C7_Witness ==
    /\ Returned
    /\ authentications.list = <<TokenRule, HeaderDottedRule>>
    /\ req.authorization = <<"Bearer", "bad">>
    /\ \E n \in 1..Len(calls) : calls[n].op = "verifyAsync" /\ ~calls[n].result.ok
    /\ authResult = <<[valid |-> TRUE, message |-> <<>>, user_identifier |-> "u1"]>>

\* a key lookup that fetched a row matching the supplied key
SomeLookupMatched ==
    \E n \in FindCalls : ~FetchedNothing(n) /\ FetchedValue(n) = SuppliedKey(n)
SomeTokenVerified ==
    \E n \in 1..Len(calls) : calls[n].op = "verifyAsync" /\ calls[n].result.ok
\* an API-key rule with a name and a location whose key is present in the request
SomeKeyPresent ==
    \E k \in 1..Len(authentications.list) :
        LET rule == authentications.list[k]
        IN /\ rule.type = APIKEY
           /\ Truthy(rule.name)
           /\ rule.location \in {HEADER, QUERY, BODY}
           /\ Truthy(ReqValue(rule.location, rule.name))

\* C8 as claimed: with rules configured, auth() returns valid only if a key
\* lookup matched the supplied key or a token verified.
C8_ValidOnlyIfChecked ==
    (authentications.present /\ Returned /\ authResult[1].valid)
        => (SomeLookupMatched \/ SomeTokenVerified)

\* C8 amended: with rules configured, auth() returns valid only if a key lookup
\* matched the supplied key, or a token verified, or - in the test environment -
\* an API-key rule found its key in the request; and it returns the default
\* 'Unauthorized' when no rule produced an outcome.
C8_ValidOnlyIfCheckedOrTest ==
    (authentications.present /\ Returned)
        => /\ authResult[1].valid
                => \/ SomeLookupMatched
                   \/ SomeTokenVerified
                   \/ isTest /\ SomeKeyPresent /\ ~Truthy(authResult[1].user_identifier)
           /\ (\A k \in 1..Len(history) : history[k] = Before(k))
                => authResult = <<[valid |-> FALSE, message |-> <<"Unauthorized">>,
                                   user_identifier |-> NoVal]>>

\* C8 witness: auth() returned valid in the test environment without any lookup
C8_Witness ==
    /\ Returned
    /\ authentications.present
    /\ authResult[1].valid
    /\ isTest
    /\ FindCalls = {}
    /\ ~SomeTokenVerified

\* auth() returned from inside iteration idx of the loop
ReturnedInLoop ==
    /\ Returned
    /\ authentications.present
    /\ idx >= 1
    /\ idx = Len(history)

\* the key check of rule k's lookup rejected what was fetched
KeyCheckRejectedAt(k) ==
    /\ \E n \in FindCalls : calls[n].rule = k
    /\ authResult = <<Fail(<<"Unauthorized">>)>>

\* C9 as claimed: the only rule failure that makes auth() return before the
\* remaining rules are considered is an API-key mismatch.
C9_OnlyMismatchReturns ==
    ReturnedInLoop => KeyCheckRejectedAt(idx)

\* C9 amended: auth() returns from inside the loop only when the rule's lookup
\* table has no schema ('No Schema Found For Table'), when the key check rejects
\* what the lookup fetched ('Unauthorized'), or when the fetched row lacks the
\* identity column; every other rule failure is kept as the running result and
\* the loop moves on to the next rule.
C9_ReturnsFromLoop ==
    /\ ReturnedInLoop
          => \/ /\ \E n \in CallsOfRule(idx) :
                      calls[n].op = "getSchema" /\ calls[n].result = FALSE
                /\ authResult = <<Fail(<<"No Schema Found For Table",
                                         authentications.list[idx].table.name>>)>>
             \/ /\ \E n \in FindCalls : calls[n].rule = idx
                /\ authResult = <<Fail(<<"Unauthorized">>)>>
             \/ \E n \in FindCalls :
                   /\ calls[n].rule = idx
                   /\ ~Truthy(Prop(calls[n].result[1], IdentityColumn(n)))
                   /\ authResult = <<Fail(<<"System configuration error: Identity column",
                                            IdentityColumn(n), "not found">>)>>
    /\ \A k \in 1..Len(history) :
          ( /\ ~history[k].valid
            /\ \A n \in CallsOfRule(k) :
                  /\ calls[n].op # "FIND"
                  /\ calls[n].op = "getSchema" => calls[n].result = TRUE )
              => /\ ~(ReturnedInLoop /\ idx = k)
                 /\ Len(history) = k => (auth_passed = history[k] /\ idx = k + 1)

\* C9 witness: the first rule's key is missing from the request, which is kept
\* as the running result; the second rule's lookup table has no schema, and
\* auth() returned from inside the loop
C9_Witness ==
    /\ ReturnedInLoop
    /\ idx = 2
    /\ history[1] = Fail(<<"API key header", KeyName, "required">>)
    /\ authResult = <<Fail(<<"No Schema Found For Table", "ghost">>)>>

Canon(withRoles) ==
    <<"getSchema", "auth">>
    \o (IF withRoles THEN <<"tablePermission">> ELSE <<>>)
    \o <<"validateData", "getPrimaryKey", "validateKey", "UNIQUE", "FIND_ONE", "UPDATE">>

IsPrefix(p, q) == Len(p) <= Len(q) /\ SubSeq(q, 1, Len(p)) = p

StatusOf(stage) ==
    CASE stage = "getSchema" -> {404}
      [] stage \in {"auth", "tablePermission"} -> {401}
      [] stage \in {"validateData", "getPrimaryKey", "validateKey", "UNIQUE",
                    "FIND_ONE"} -> {400}
      [] stage = "UPDATE" -> {200, 400}

\* C10: the stages of updateById() run in the fixed order, each only after the
\* earlier ones succeeded; the first failing stage sends the one response, with
\* its terminal status, and no stage runs after it.
C10_StagesInOrder ==
    /\ IsPrefix(stages, Canon(TRUE)) \/ IsPrefix(stages, Canon(FALSE))
    /\ Len(response) <= 1
    /\ response # <<>>
          => /\ cpc = "sent"
             /\ stages # <<>>
             /\ response[1].status \in StatusOf(stages[Len(stages)])
    /\ (response # <<>> /\ response[1].status = 200) => stages \in {Canon(TRUE), Canon(FALSE)}
    /\ \A n \in 1..Len(stages) :
          stages[n] = "tablePermission" => Truthy(authResult[1].user_identifier)

\* C10 witness: authentication and the permission check passed, every validation
\* passed, FIND_ONE found no record and the request ended with 400
C10_Witness ==
    /\ cpc = "sent"
    /\ stages = <<"getSchema", "auth", "tablePermission", "validateData",
                  "getPrimaryKey", "validateKey", "UNIQUE", "FIND_ONE">>
    /\ response = <<[status |-> 400, body |-> <<"Record with id", PathId, "not found">>]>>

-----------------------------------------------------------------------------
(* Reading the controller's part of the call log *)

\* the positions of the call log at which the controller issued the verb
Issued(op) == {n \in 1..Len(calls) : calls[n].rule = 0 /\ calls[n].op = op}

NotFoundResponse == [status |-> 400, body |-> <<"Record with id", PathId, "not found">>]

\* C11: UPDATE is issued only after the FIND_ONE of the same request returned a
\* record; when FIND_ONE returns no record the request ends with 400 'Record with
\* id <id> not found' and no UPDATE is issued.
C11_UpdateOnlyAfterFound ==
    /\ \A u \in Issued("UPDATE") :
          \E f \in Issued("FIND_ONE") : f < u /\ calls[f].result # <<>>
    /\ \A f \in Issued("FIND_ONE") :
          calls[f].result = <<>> =>
             /\ Issued("UPDATE") = {}
             /\ cpc = "sent"
             /\ response = <<NotFoundResponse>>

\* the row of the path id is missing and the request got as far as FIND_ONE
C11_Witness ==
    /\ \E f \in Issued("FIND_ONE") : calls[f].result = <<>>
    /\ store[PathId] = <<>>
    /\ response = <<NotFoundResponse>>

\* the row of the path id was deleted after FIND_ONE found it and before UPDATE ran
DeletedBeforeUpdate == deleted /\ Issued("UPDATE") # {}

\* a 200 answer carries the row the UPDATE wrote
SuccessMeansUpdated ==
    \A n \in 1..Len(response) :
       response[n].status = 200 =>
          /\ response[n].body # <<>>
          /\ store[PathId] = response[n].body
          /\ \E u \in Issued("UPDATE") : ~calls[u].result.raised

OtherHolders == {i \in Ids \ {PathId} : store[i] # <<>> /\ store[i][1].email = req.body.email}

\* the row being updated holds, or held before the update, the body's unique value
SelfCollision ==
    /\ store[PathId] # <<>>
    /\ store[PathId][1].email = req.body.email
    /\ \E f \in Issued("FIND_ONE") :
          calls[f].result # <<>> /\ calls[f].result[1].email = req.body.email

\* C13: the path id is the excluded id of the UNIQUE check; when only the row
\* being updated holds the body's unique value the check passes and the request
\* ends with 200 carrying the updated row (unless the storage fails); when a row
\* with another id holds it the request ends with 400 without FIND_ONE or UPDATE.
C13_UniqueExcludesPathId ==
    \A n \in Issued("UNIQUE") :
       /\ calls[n].arg.id = PathId
       /\ calls[n].arg.data = req.body
       /\ (OtherHolders = {}) => calls[n].result
       /\ (SelfCollision /\ cpc = "sent") =>
             /\ Len(response) = 1
             /\ IF response[1].status = 200
                THEN response[1].body = store[PathId]
                ELSE /\ response[1].status = 400
                     /\ response[1].body = <<"StorageFailure">>
                     /\ \E u \in Issued("UPDATE") : calls[u].result.raised
       /\ (OtherHolders # {}) =>
             /\ ~calls[n].result
             /\ cpc = "sent"
             /\ Len(response) = 1 /\ response[1].status = 400
             /\ Issued("FIND_ONE") = {} /\ Issued("UPDATE") = {}

\* the row of the path id already holds the body's value and the request succeeded
C13_Witness ==
    /\ SelfCollision
    /\ \E n \in Issued("UNIQUE") : calls[n].result
    /\ Len(response) = 1
    /\ response[1].status = 200
    /\ response[1].body = store[PathId]

\* the only rule is an API-key rule on a header the request does not carry, and
\* the request got as far as authentication
OnlyHeaderRuleKeyOmitted ==
    /\ authentications.present
    /\ Len(authentications.list) = 1
    /\ authentications.list[1].type = APIKEY
    /\ authentications.list[1].location = HEADER
    /\ Truthy(authentications.list[1].name)
    /\ ~Truthy(ReqValue(HEADER, authentications.list[1].name))
    /\ cpc # "schema" /\ cpc # "auth"
    /\ authResult # <<>>

HeaderRequired == <<"API key header", authentications.list[1].name, "required">>

AnsweredHeaderRequired ==
    /\ authResult[1] = Fail(HeaderRequired)
    /\ FindCalls = {}
    /\ response = <<[status |-> 401, body |-> HeaderRequired]>>

\* C14 as stated: whenever the only rule is an applicable header API-key rule and
\* the header is omitted, auth() is invalid with 'API key header <name> required',
\* no FIND is issued and the flow answers 401 with that message.
C14_MissingHeaderNamed == OnlyHeaderRuleKeyOmitted => AnsweredHeaderRequired

\* C14: the same, for a rule whose lookup table has a schema.
C14_MissingHeaderNamedWithSchema ==
    (OnlyHeaderRuleKeyOmitted /\ getSchema(authentications.list[1].table.name) # <<>>)
       => AnsweredHeaderRequired

\* the header is omitted and the flow answered 401 naming it
C14_Witness ==
    /\ OnlyHeaderRuleKeyOmitted
    /\ getSchema(authentications.list[1].table.name) # <<>>
    /\ AnsweredHeaderRequired

\* the collaborators that are not the Query Engine
NonQueryCalls == {"getSchema", "validateFields", "verifyAsync"}

\* the Query Engine verbs auth() has issued so far
QueryVerbsIssued == {calls[n].op : n \in 1..Len(calls)} \ NonQueryCalls

\* C15: auth() is read-only: the only Query Engine verbs it issues are FIND_MANY
\* and FIND, never CREATE, UPDATE or DELETE, and no step of it changes the
\* request, the rule configuration or the tables it reads.
C15_AuthIsReadOnly ==
    /\ [](QueryVerbsIssued \subseteq {"FIND_MANY", "FIND"})
    /\ [][UNCHANGED configVars]_vars

\* auth() returned after both a route-entry lookup and a key lookup
C15_Witness ==
    /\ Returned
    /\ QueryVerbsIssued = {"FIND_MANY", "FIND"}

\* C16 as stated: a configured rule list with zero rules is treated like no
\* configuration, auth() returns the permissive valid result.
C16_EmptyListIsValid ==
    (authentications.present /\ authentications.list = <<>> /\ Returned)
       => authResult[1] = Permissive

\* authentication passed and the role check of lines 49-68 is behind the request
PastRoles ==
    /\ authResult # <<>>
    /\ authResult[1].valid
    /\ cpc \notin {"schema", "auth", "roles"}

HasIdentity == authResult # <<>> /\ Truthy(authResult[1].user_identifier)

\* C17: tablePermission is called exactly when auth() returned an identity;
\* without an identity no WRITE permission check is made, no restriction is
\* collected and the flow goes on to validation; every UPDATE of a request with
\* an identity comes after a valid WRITE permission for that identity and table.
C17_PermissionIffIdentity ==
    /\ Issued("tablePermission") # {} => HasIdentity
    /\ PastRoles =>
          /\ HasIdentity <=> Issued("tablePermission") # {}
          /\ ~HasIdentity =>
                /\ permission = <<>>
                /\ role_where = <<>>
                /\ cpc = "validate" \/ \E n \in 1..Len(stages) : stages[n] = "validateData"
    /\ \A u \in Issued("UPDATE") :
          HasIdentity =>
             \E p \in Issued("tablePermission") :
                /\ p < u
                /\ calls[p].result.valid
                /\ calls[p].arg = [identifier |-> authResult[1].user_identifier,
                                   table |-> table_name, access |-> "WRITE"]

\* rules are configured, auth() passed without an identity and UPDATE was issued
\* with no permission check
C17_Witness ==
    /\ authentications.present
    /\ PastRoles /\ ~HasIdentity
    /\ Issued("tablePermission") = {}
    /\ Issued("UPDATE") # {}

\* the positions at which validateFields reported the matching column invalid
InvalidColumnCalls ==
    {n \in 1..Len(calls) : calls[n].op = "validateFields" /\ ~calls[n].result}

\* C18 as stated: when validateFields reports the rule's matching column invalid
\* no FIND is issued for the rule and the rule does not pass.
C18_InvalidColumnNoLookup ==
    \A n \in InvalidColumnCalls :
       /\ ~\E f \in FindCalls : calls[f].rule = calls[n].rule
       /\ Len(history) >= calls[n].rule => ~history[calls[n].rule].valid

\* rule k is an API-key rule with a name and a location that the loop applied
\* (no earlier rule had passed) to a request carrying a key at that location
KeyedRuleApplied(k) ==
    LET a == authentications.list[k]
    IN /\ a.type = APIKEY
       /\ Truthy(a.name)
       /\ Truthy(a.location)
       /\ Truthy(ReqValue(a.location, a.name))
       /\ ~Before(k).valid

\* rule k passed in the test environment, with no lookup and no identity
BypassedAt(k) ==
    /\ history[k] = Pass(NoVal)
    /\ ~\E f \in FindCalls : calls[f].rule = k

\* outside the test environment a passing API-key rule carries the identity of
\* the row its FIND fetched
PassCarriesIdentity ==
    \A k \in 1..Len(history) :
       (authentications.list[k].type = APIKEY /\ ~Before(k).valid /\ history[k].valid) =>
          /\ Truthy(history[k].user_identifier)
          /\ \E f \in FindCalls :
                /\ calls[f].rule = k
                /\ calls[f].result # <<>>
                /\ Prop(calls[f].result[1], IdentityColumn(f)) = history[k].user_identifier

\* C19 as stated: in the test environment every applied API-key rule with a name
\* and a location passes for any non-empty key without a lookup and without an
\* identity; outside it a passing API-key result carries a fetched identity.
C19_TestBypass ==
    /\ isTest => \A k \in 1..Len(history) : KeyedRuleApplied(k) => BypassedAt(k)
    /\ ~isTest => PassCarriesIdentity

\* C19: the same, the bypass holding for rules whose lookup table has a schema.
C19_TestBypassWithSchema ==
    /\ isTest =>
          \A k \in 1..Len(history) :
             (KeyedRuleApplied(k) /\ getSchema(authentications.list[k].table.name) # <<>>)
                => BypassedAt(k)
    /\ ~isTest => PassCarriesIdentity

\* auth() returned a key rule's bypass in the test environment
C19_Witness ==
    /\ isTest /\ Returned
    /\ \E k \in 1..Len(history) : KeyedRuleApplied(k) /\ BypassedAt(k)
    /\ authResult[1] = Pass(NoVal)

\* a failure raised by UPDATE is answered with 400 and the failure's message
UpdateFailureIs400 ==
    \A u \in Issued("UPDATE") :
       calls[u].result.raised =>
          /\ Len(response) = 1
          /\ response[1].status = 400
          /\ response[1].body = calls[u].result.message

\* C20: every run of updateById() sends exactly one response: never two, the
\* handler has ended exactly when one was sent, one is eventually sent, and
\* after it no stage or Query Engine verb is invoked; a failure raised by UPDATE
\* is answered with 400 carrying the failure's message.
C20_ExactlyOneResponse ==
    /\ [](/\ Len(response) <= 1
          /\ cpc = "sent" <=> Len(response) = 1
          /\ UpdateFailureIs400)
    /\ [][response # <<>> => UNCHANGED <<stages, calls, response, store>>]_vars
    /\ <>(Len(response) = 1)

\* the storage failed under UPDATE and the request was answered with its message
C20_Witness ==
    /\ \E u \in Issued("UPDATE") : calls[u].result.message = <<"StorageFailure">>
    /\ Len(response) = 1
    /\ response[1].status = 400
    /\ response[1].body = <<"StorageFailure">>

====
